---------------------------- MODULE Spec2Model ----------------------------
(***************************************************************************)
(* Crafting-cycle analysis (analyze_cycles.py): the recipe store and its   *)
(* indexes, the depth-first cycle search, the per-cycle analysis and the   *)
(* filtering and sorting of the report done by main().                     *)
(*                                                                         *)
(* Recipe ids are 0-based as in the code; the recipe list is a TLA+        *)
(* sequence, so recipe id r is recipes[r + 1].  A Python dict is a         *)
(* function whose DOMAIN is the set of keys present.  A duration is a      *)
(* record [isRange, min, max]: isRange is isinstance(duration, dict), and  *)
(* a plain number d is [isRange |-> FALSE, min |-> d, max |-> d].  The     *)
(* station and level of a recipe are carried by no computation modelled    *)
(* here and are left out of the records.                                   *)
(***************************************************************************)
EXTENDS Integers, Sequences, FiniteSets, TLC

VARIABLES
    recipes,            \* CraftingGraph.recipes / recipe_id_map
    item_to_producers,  \* CraftingGraph.item_to_producers
    item_to_consumers,  \* CraftingGraph.item_to_consumers
    config,             \* AnalysisConfig
    pc,                 \* position of main(): "find", "analyze", "filter", "sort", "done",
                        \* "exit" (an early return), "aborted" (an uncaught exception)
    pending,            \* roots the loop of find_all_cycles has not started yet
    stack,              \* active dfs() calls, innermost last
    visited_in_path,    \* find_all_cycles.visited_in_path
    cycles,             \* find_all_cycles.cycles (a list, in discovery order)
    analyses            \* main().analyses

vars == <<recipes, item_to_producers, item_to_consumers, config, pc,
          pending, stack, visited_in_path, cycles, analyses>>

storeVars == <<recipes, item_to_producers, item_to_consumers, config>>

-----------------------------------------------------------------------------
(* Bounds of the model *)

MaxRecipes == 3

MaxLen == 3

MaxQty == 2

MaxInputs == 2

(* Program constants: the defaults of AnalysisConfig *)

DefaultMaxCycleLength == 10

DefaultMinCycleLength == 1

Items == {"Wire", "Gear"}

-----------------------------------------------------------------------------
(* Sequence helpers *)

Range(s) == {s[i] : i \in DOMAIN s}

\* list.index(x): the first position of x
Index(s, x) == CHOOSE i \in DOMAIN s : s[i] = x /\ \A j \in 1..(i - 1) : s[j] # x

\* min(list)
SeqMin(s) == CHOOSE m \in Range(s) : \A x \in Range(s) : m <= x

SetMin(S) == CHOOSE m \in S : \A x \in S : m <= x

Scalar(d) == [isRange |-> FALSE, min |-> d, max |-> d]

Ranged(a, b) == [isRange |-> TRUE, min |-> a, max |-> b]

\* dict.get(k, default)
Get(d, k, default) == IF k \in DOMAIN d THEN d[k] ELSE default

\* defaultdict(list)[k].append(v)
ListAppend(d, k, v) ==
    [x \in DOMAIN d \cup {k} |-> IF x = k THEN Append(Get(d, k, <<>>), v) ELSE d[x]]

\* defaultdict(int)[k] += v
Add(d, k, v) ==
    [x \in DOMAIN d \cup {k} |-> IF x = k THEN Get(d, k, 0) + v ELSE d[x]]

\* item.get('consumable', True): a reference without the flag counts as consumable
IsConsumable(item) == item.consumable # "no"

-----------------------------------------------------------------------------
(* CraftingGraph._build_graph *)

EmptyGraph == [recipes |-> <<>>, item_to_producers |-> <<>>, item_to_consumers |-> <<>>]

RECURSIVE IndexInputs(_, _, _, _)
\* the loop over recipe['inputs'] of _build_graph, from input i on
IndexInputs(consumers, inputs, i, recipe_id) ==
    IF i > Len(inputs) THEN consumers
    ELSE IF ~IsConsumable(inputs[i])
         THEN IndexInputs(consumers, inputs, i + 1, recipe_id)
         ELSE IndexInputs(ListAppend(consumers, inputs[i].name, recipe_id),
                          inputs, i + 1, recipe_id)

\* one iteration of the recipe loop of _build_graph
AddRecipe(g, recipe) ==
    LET recipe_id == Len(g.recipes)
        recipe_obj == [id |-> recipe_id,
                       inputs |-> recipe.inputs,
                       output |-> recipe.output,
                       duration |-> recipe.duration]
    IN [recipes |-> Append(g.recipes, recipe_obj),
        item_to_producers |-> ListAppend(g.item_to_producers, recipe.output.name, recipe_id),
        item_to_consumers |-> IndexInputs(g.item_to_consumers, recipe.inputs, 1, recipe_id)]

RECURSIVE BuildFrom(_, _, _)
BuildFrom(g, recipes_data, i) ==
    IF i > Len(recipes_data) THEN g
    ELSE BuildFrom(AddRecipe(g, recipes_data[i]), recipes_data, i + 1)

BuildGraph(recipes_data) == BuildFrom(EmptyGraph, recipes_data, 1)

\* recipe_id_map[recipe_id]
RecipeById(recipe_id) == recipes[recipe_id + 1]

-----------------------------------------------------------------------------
(* CraftingGraph.find_all_cycles *)

\* self.item_to_consumers.get(output_name, [])
ConsumersOf(output_name) == Get(item_to_consumers, output_name, <<>>)

\* the consumers dfs() iterates over at recipe_id
NextRecipes(recipe_id) == ConsumersOf(RecipeById(recipe_id).output.name)

IsClosureBoundedFirst(recipe_id, path) ==
    recipe_id \in Range(path) /\ Len(path) < config.max_cycle_length

\* if recipe_id in path
IsClosure(recipe_id, path) == recipe_id \in Range(path)

CycleOfWholePath(recipe_id, path) == path

\* cycle = path[path.index(recipe_id):]
CycleOf(recipe_id, path) == SubSeq(path, Index(path, recipe_id), Len(path))

TooShortNever(cycle) == FALSE

\* if len(cycle) < min_length
TooShort(cycle) == Len(cycle) < config.min_cycle_length

NormalizeNoRotation(cycle) == cycle

\* tuple(cycle[min_idx:] + cycle[:min_idx]) with min_idx = cycle.index(min(cycle))
Normalize(cycle) ==
    LET min_idx == Index(cycle, SeqMin(cycle))
    IN SubSeq(cycle, min_idx, Len(cycle)) \o SubSeq(cycle, 1, min_idx - 1)

\* the closure branch of dfs(): the value of cycles after it
Record(cs, recipe_id, path) ==
    LET cycle == CycleOf(recipe_id, path)
        normalized == Normalize(cycle)
    IN IF TooShort(cycle) THEN cs
       ELSE IF normalized \in Range(cs) THEN cs
       ELSE Append(cs, normalized)

PrunedByVisitedOnly(recipe_id, path, vis) == recipe_id \in vis

PrunedOffByOne(recipe_id, path, vis) ==
    recipe_id \in vis \/ Len(path) > config.max_cycle_length

\* if recipe_id in visited_in_path or len(path) >= max_length
Pruned(recipe_id, path, vis) ==
    recipe_id \in vis \/ Len(path) >= config.max_cycle_length

LeaveKeepVisited(vis, recipe_id) == vis

\* visited_in_path.remove(recipe_id)
Leave(vis, recipe_id) == vis \ {recipe_id}

AfterGetItem(index, key) ==
    IF key \in DOMAIN index THEN index
    ELSE [k \in DOMAIN index \cup {key} |-> IF k = key THEN <<>> ELSE index[k]]

\* the index after index.get(key, []): dict.get, which creates no bucket for a
\* missing key, on a defaultdict as on a dict
AfterGet(index, key) == index

\* the call dfs(recipe_id, path) made from the stack base with visited_in_path =
\* vis and cycles = cs, up to its return or to the start of its loop
Call(recipe_id, path, base, vis, cs) ==
    IF IsClosure(recipe_id, path)
    THEN [cycles |-> Record(cs, recipe_id, path), stack |-> base, visited |-> vis,
          consumers |-> item_to_consumers]
    ELSE IF Pruned(recipe_id, path, vis)
    THEN [cycles |-> cs, stack |-> base, visited |-> vis,
          consumers |-> item_to_consumers]
    ELSE [cycles |-> cs,
          stack |-> Append(base, [recipe_id |-> recipe_id,
                                  path |-> Append(path, recipe_id),
                                  todo |-> DOMAIN NextRecipes(recipe_id)]),
          visited |-> vis \cup {recipe_id},
          consumers |-> AfterGet(item_to_consumers, RecipeById(recipe_id).output.name)]

RECURSIVE Unwind(_, _)
\* the calls whose loop has ended return: visited_in_path.remove(recipe_id)
Unwind(st, vis) ==
    IF st # <<>> /\ st[Len(st)].todo = {}
    THEN Unwind(SubSeq(st, 1, Len(st) - 1), Leave(vis, st[Len(st)].recipe_id))
    ELSE [stack |-> st, visited |-> vis]

\* a call dfs(recipe_id, path), and the returns that follow it up to the next call
Enter(recipe_id, path, base, vis) ==
    LET called == Call(recipe_id, path, base, vis, cycles)
        unwound == Unwind(called.stack, called.visited)
    IN /\ cycles' = called.cycles
       /\ stack' = unwound.stack
       /\ visited_in_path' = unwound.visited
       /\ item_to_consumers' = called.consumers

Top == stack[Len(stack)]

\* one iteration of "for recipe_id in range(len(self.recipes))"
StartRootAt(r) ==
    /\ pending' = pending \ {r}
    /\ Enter(r, <<>>, <<>>, {})
    /\ UNCHANGED <<recipes, item_to_producers, config, pc, analyses>>

\* one iteration of "for next_recipe_id in ...: dfs(next_recipe_id, path[:])"
DfsNextAt(i) ==
    LET base == [stack EXCEPT ![Len(stack)].todo = @ \ {i}]
    IN /\ Enter(NextRecipes(Top.recipe_id)[i], Top.path, base, visited_in_path)
       /\ UNCHANGED <<recipes, item_to_producers, config, pc, pending, analyses>>

StartRoot ==
    /\ pc = "find" /\ stack = <<>> /\ pending # {}
    /\ StartRootAt(SetMin(pending))

DfsNext ==
    /\ pc = "find" /\ stack # <<>>
    /\ DfsNextAt(SetMin(Top.todo))

\* return cycles, and main()'s "if not cycles: return"
FindDone ==
    /\ pc = "find" /\ stack = <<>> /\ pending = {}
    /\ pc' = IF cycles = <<>> THEN "exit" ELSE "analyze"
    /\ UNCHANGED <<storeVars, pending, stack, visited_in_path, cycles, analyses>>

\* the roots taken in any order
StartRootAny ==
    /\ pc = "find" /\ stack = <<>> /\ pending # {}
    /\ \E r \in pending : StartRootAt(r)

-----------------------------------------------------------------------------
(* CycleAnalysis *)

\* self.recipes = [graph.recipe_id_map[rid] for rid in cycle]
RecipesOf(cycle) == [i \in DOMAIN cycle |-> RecipeById(cycle[i])]

\* A total duration: as a duration, with half = 1 when the value is min + 1/2
\* (the float sum of duration_mode 'avg').
Total(isRange, min, max, half) ==
    [isRange |-> isRange, min |-> min, max |-> max, half |-> half]

RECURSIVE SumRange(_, _, _)
\* the loop of mode 'range', from recipe i on: acc = (total_min, total_max, has_range)
SumRange(rs, i, acc) ==
    IF i > Len(rs) THEN acc
    ELSE LET duration == rs[i].duration
         IN IF duration.isRange
            THEN SumRange(rs, i + 1, [total_min |-> acc.total_min + duration.min,
                                      total_max |-> acc.total_max + duration.max,
                                      has_range |-> TRUE])
            ELSE SumRange(rs, i + 1, [total_min |-> acc.total_min + duration.min,
                                      total_max |-> acc.total_max + duration.min,
                                      has_range |-> acc.has_range])

RECURSIVE SumAvg2(_, _)
\* twice the total of mode 'avg', from recipe i on
SumAvg2(rs, i) ==
    IF i > Len(rs) THEN 0
    ELSE LET duration == rs[i].duration
         IN (IF duration.isRange THEN duration.min + duration.max ELSE 2 * duration.min)
            + SumAvg2(rs, i + 1)

RECURSIVE SumField(_, _, _)
\* the total of mode 'min' or 'max', from recipe i on
SumField(rs, i, mode) ==
    IF i > Len(rs) THEN 0
    ELSE LET duration == rs[i].duration
         IN (IF duration.isRange
             THEN (IF mode = "min" THEN duration.min ELSE duration.max)
             ELSE duration.min)
            + SumField(rs, i + 1, mode)

RangeTotalAlwaysRange(acc) == Total(TRUE, acc.total_min, acc.total_max, 0)

\* return {'min': total_min, 'max': total_max} if has_range else total_min
RangeTotal(acc) ==
    IF acc.has_range THEN Total(TRUE, acc.total_min, acc.total_max, 0)
    ELSE Total(FALSE, acc.total_min, acc.total_min, 0)

\* CycleAnalysis._calculate_duration
CalculateDuration(rs, mode) ==
    CASE mode = "range" ->
            RangeTotal(SumRange(rs, 1, [total_min |-> 0, total_max |-> 0, has_range |-> FALSE]))
      [] mode = "avg" ->
            LET t2 == SumAvg2(rs, 1) IN Total(FALSE, t2 \div 2, t2 \div 2, t2 % 2)
      [] mode \in {"min", "max"} ->
            LET t == SumField(rs, 1, mode) IN Total(FALSE, t, t, 0)
      [] OTHER -> Total(FALSE, 0, 0, 0)

CountsAsInputEveryItem(item) == TRUE

\* "if not item.get('consumable', True): continue" of _calculate_inputs
CountsAsInput(item) == IsConsumable(item)

RECURSIVE SumInputs(_, _, _, _)
\* the loops of _calculate_inputs, from input j of recipe i on
SumInputs(inputs, rs, i, j) ==
    IF i > Len(rs) THEN inputs
    ELSE IF j > Len(rs[i].inputs) THEN SumInputs(inputs, rs, i + 1, 1)
    ELSE LET item == rs[i].inputs[j]
         IN IF ~CountsAsInput(item)
            THEN SumInputs(inputs, rs, i, j + 1)
            ELSE SumInputs(Add(inputs, item.name, item.quantity), rs, i, j + 1)

\* CycleAnalysis._calculate_inputs
CalculateInputs(rs) == SumInputs(<<>>, rs, 1, 1)

RECURSIVE SumOutputs(_, _, _)
SumOutputs(outputs, rs, i) ==
    IF i > Len(rs) THEN outputs
    ELSE SumOutputs(Add(outputs, rs[i].output.name, rs[i].output.quantity), rs, i + 1)

\* CycleAnalysis._calculate_outputs
CalculateOutputs(rs) == SumOutputs(<<>>, rs, 1)

NetOfKeepZero(balance, item, net) ==
    [x \in DOMAIN balance \cup {item} |-> IF x = item THEN net ELSE balance[x]]

\* "if net != 0: balance[item] = net"
NetOf(balance, item, net) ==
    IF net # 0
    THEN [x \in DOMAIN balance \cup {item} |-> IF x = item THEN net ELSE balance[x]]
    ELSE balance

RECURSIVE BalanceLoop(_, _, _, _)
\* the loop of _calculate_balance over the items left in todo
BalanceLoop(balance, todo, inputs_consumed, outputs_produced) ==
    IF todo = {} THEN balance
    ELSE LET item == CHOOSE x \in todo : TRUE
             consumed == Get(inputs_consumed, item, 0)
             produced == Get(outputs_produced, item, 0)
         IN BalanceLoop(NetOf(balance, item, produced - consumed),
                        todo \ {item}, inputs_consumed, outputs_produced)

\* CycleAnalysis._calculate_balance
CalculateBalance(inputs_consumed, outputs_produced) ==
    BalanceLoop(<<>>, DOMAIN inputs_consumed \cup DOMAIN outputs_produced,
                inputs_consumed, outputs_produced)

RECURSIVE SustainLoop(_, _, _)
\* the loop of _check_self_sustaining over the items left in todo
SustainLoop(net_balance, todo, has_profit) ==
    IF todo = {} THEN has_profit
    ELSE LET item == CHOOSE x \in todo : TRUE
         IN IF net_balance[item] < 0 THEN FALSE
            ELSE SustainLoop(net_balance, todo \ {item},
                             has_profit \/ net_balance[item] > 0)

CheckSelfSustainingProfitOnly(net_balance) ==
    \E item \in DOMAIN net_balance : net_balance[item] > 0

\* CycleAnalysis._check_self_sustaining
CheckSelfSustaining(net_balance) == SustainLoop(net_balance, DOMAIN net_balance, FALSE)

\* d[key] raises KeyError
KeyError(d, key) == key \notin DOMAIN d

\* CycleAnalysis(cycle, ...) raises: "qty = item['quantity']" of
\* _calculate_inputs, reached for the consumable inputs only, or
\* "qty = output['quantity']" of _calculate_outputs
AnalysisRaises(cycle) ==
    \E i \in DOMAIN cycle :
        \/ \E j \in DOMAIN RecipeById(cycle[i]).inputs :
              /\ CountsAsInput(RecipeById(cycle[i]).inputs[j])
              /\ KeyError(RecipeById(cycle[i]).inputs[j], "quantity")
        \/ KeyError(RecipeById(cycle[i]).output, "quantity")

\* CycleAnalysis.__init__
CycleAnalysis(cycle) ==
    LET rs == RecipesOf(cycle)
        inputs_consumed == CalculateInputs(rs)
        outputs_produced == CalculateOutputs(rs)
        net_balance == CalculateBalance(inputs_consumed, outputs_produced)
    IN [cycle |-> cycle,
        total_duration |-> CalculateDuration(rs, config.duration_mode),
        inputs_consumed |-> inputs_consumed,
        outputs_produced |-> outputs_produced,
        net_balance |-> net_balance,
        is_self_sustaining |-> CheckSelfSustaining(net_balance)]

-----------------------------------------------------------------------------
(* main(): analysis, filtering, sorting *)

\* twice get_duration_value(duration)
DurationValue2(duration) ==
    IF duration.isRange THEN duration.min + duration.max
    ELSE 2 * duration.min + duration.half

\* the sort key of an analysis, as a tuple of integers (-True is -1)
SortKey(a, sort_by) ==
    CASE sort_by = "self_sustaining" ->
            <<-(IF a.is_self_sustaining THEN 1 ELSE 0), -Len(a.cycle)>>
      [] sort_by = "length" -> <<-Len(a.cycle)>>
      [] sort_by = "duration" -> <<-DurationValue2(a.total_duration)>>
      [] OTHER -> <<>>

\* tuple comparison k1 < k2
RECURSIVE TupleLess(_, _, _)
TupleLess(k1, k2, i) ==
    IF i > Len(k1) \/ i > Len(k2) THEN Len(k1) < Len(k2)
    ELSE IF k1[i] # k2[i] THEN k1[i] < k2[i]
    ELSE TupleLess(k1, k2, i + 1)

InsertBeforeEqualKeys(s, a, sort_by) ==
    LET behind == {i \in DOMAIN s : TupleLess(SortKey(s[i], sort_by), SortKey(a, sort_by), 1)}
        k == IF behind = {} THEN 0 ELSE CHOOSE i \in behind : \A j \in behind : j <= i
    IN SubSeq(s, 1, k) \o <<a>> \o SubSeq(s, k + 1, Len(s))

\* a into the sorted list s, behind every element whose key is not greater
Insert(s, a, sort_by) ==
    LET behind == {i \in DOMAIN s : ~TupleLess(SortKey(a, sort_by), SortKey(s[i], sort_by), 1)}
        k == IF behind = {} THEN 0 ELSE CHOOSE i \in behind : \A j \in behind : j <= i
    IN SubSeq(s, 1, k) \o <<a>> \o SubSeq(s, k + 1, Len(s))

RECURSIVE SortFrom(_, _, _, _)
SortFrom(sorted, s, i, sort_by) ==
    IF i > Len(s) THEN sorted
    ELSE SortFrom(Insert(sorted, s[i], sort_by), s, i + 1, sort_by)

SortedUnsorted(s, sort_by) == s

\* list.sort(key=...): a stable sort
Sorted(s, sort_by) == SortFrom(<<>>, s, 1, sort_by)

\* one element of "[CycleAnalysis(cycle, graph, vars(config)) for cycle in cycles]";
\* main() catches no exception, so one raised here ends the run with the list
\* comprehension unfinished and analyses never bound
AnalyzeNext ==
    /\ pc = "analyze"
    /\ IF AnalysisRaises(cycles[Len(analyses) + 1])
       THEN /\ analyses' = <<>>
            /\ pc' = "aborted"
       ELSE /\ analyses' = Append(analyses, CycleAnalysis(cycles[Len(analyses) + 1]))
            /\ pc' = IF Len(analyses') = Len(cycles) THEN "filter" ELSE "analyze"
    /\ UNCHANGED <<storeVars, pending, stack, visited_in_path, cycles>>

\* "if not config.include_non_sustaining: ..." and "if not analyses: return"
Filter ==
    /\ pc = "filter"
    /\ analyses' = IF ~config.include_non_sustaining
                   THEN SelectSeq(analyses, LAMBDA a : a.is_self_sustaining)
                   ELSE analyses
    /\ pc' = IF analyses' = <<>> THEN "exit" ELSE "sort"
    /\ UNCHANGED <<storeVars, pending, stack, visited_in_path, cycles>>

\* analyses.sort(...), then the output of the report
Sort ==
    /\ pc = "sort"
    /\ analyses' = Sorted(analyses, config.sort_by)
    /\ pc' = "done"
    /\ UNCHANGED <<storeVars, pending, stack, visited_in_path, cycles>>

-----------------------------------------------------------------------------
(* The stores and configurations the model starts from *)

Ref(name, quantity, consumable) ==
    [name |-> name, quantity |-> quantity, consumable |-> consumable]

Recipe(inputs, output_name, output_quantity, duration) ==
    [inputs |-> inputs,
     output |-> [name |-> output_name, quantity |-> output_quantity],
     duration |-> duration]

Config(min_length, max_length, duration_mode, include_non_sustaining, sort_by) ==
    [min_cycle_length |-> min_length,
     max_cycle_length |-> max_length,
     duration_mode |-> duration_mode,
     include_non_sustaining |-> include_non_sustaining,
     sort_by |-> sort_by]

SeqsUpTo(S, n) == UNION {[1..k -> S] : k \in 0..n}

RECURSIVE UnitInputs(_)
\* one consumable reference of quantity 1 to each item of S
UnitInputs(S) ==
    IF S = {} THEN <<>>
    ELSE LET name == CHOOSE x \in S : TRUE
         IN <<Ref(name, 1, "yes")>> \o UnitInputs(S \ {name})

\* Stores that vary the shape of the recipe graph.  The two item names are
\* interchangeable, so the first recipe is taken to make Wire.
GraphRecipes ==
    {Recipe(UnitInputs(S), name, 1, Scalar(0)) : S \in SUBSET Items, name \in Items}

GraphStores ==
    UNION {{s \in [1..n -> GraphRecipes] : s[1].output.name = "Wire"} : n \in 1..MaxRecipes}

\* The bounds of the search: every pair with min_length <= max_length
LengthPairs ==
    {p \in (1..MaxLen) \X (1..MaxLen) : p[1] <= p[2]}

\* The bounds the command line accepts (type=int, no check) with min_length or
\* max_length non-positive, or min_length > max_length
UncheckedLengthPairs ==
    {p \in (-1..MaxLen) \X (-1..MaxLen) : p[1] <= 0 \/ p[2] <= 0 \/ p[1] > p[2]}

\* Stores of one recipe that vary its item references and quantities
Refs == {Ref(name, quantity, consumable) :
            name \in Items, quantity \in 0..MaxQty, consumable \in {"yes", "no"}}

QuantityRecipes ==
    {Recipe(inputs, name, quantity, Scalar(0)) :
        inputs \in SeqsUpTo(Refs, MaxInputs), name \in Items, quantity \in 1..MaxQty}

QuantityStores == {<<recipe>> : recipe \in QuantityRecipes}

\* Stores whose recipes all turn Wire into Wire, varying durations and yields
Durations == {Scalar(0), Scalar(30), Ranged(10, 20)}

Yields == {1, 2}

DurationRecipes ==
    {Recipe(<<Ref("Wire", 1, "unset")>>, "Wire", quantity, duration) :
        quantity \in Yields, duration \in Durations}

DurationStores == UNION {[1..n -> DurationRecipes] : n \in 1..(MaxRecipes - 1)}

\* Stores whose recipes all turn Wire into Wire, one at least with an input
\* that has no 'quantity' key
NoQuantityRecipes ==
    {Recipe(<<Ref("Wire", 1, "yes")>>, "Wire", 1, Scalar(0)),
     Recipe(<<[name |-> "Wire", consumable |-> "yes"]>>, "Wire", 1, Scalar(0))}

NoQuantityStores ==
    {s \in UNION {[1..n -> NoQuantityRecipes] : n \in 1..(MaxRecipes - 1)} :
        \E i \in DOMAIN s : KeyError(s[i].inputs[1], "quantity")}

\* Scenario A: R1 makes 2 Wire from nothing, R2 makes 3 Wire from 1 Wire
ScenarioA ==
    <<Recipe(<<>>, "Wire", 2, Scalar(0)),
      Recipe(<<Ref("Wire", 1, "yes")>>, "Wire", 3, Scalar(0))>>

DurationModes == {"min", "max", "avg", "range"}

SortKeys == {"self_sustaining", "length", "duration"}

\* The configurations of the duration stores: every duration mode under the sort
\* by duration, and every sort key and filter under the default mode
ReportConfigs ==
    {Config(DefaultMinCycleLength, DefaultMaxCycleLength, mode, TRUE, "duration") :
        mode \in DurationModes}
    \cup {Config(DefaultMinCycleLength, DefaultMaxCycleLength, "range", include, sort_by) :
             include \in BOOLEAN, sort_by \in SortKeys}

\* the state after AnalysisConfig.from_args() and CraftingGraph(data), with the
\* consumers index given
InitState(g, consumers, cfg) ==
    /\ recipes = g.recipes
    /\ item_to_producers = g.item_to_producers
    /\ item_to_consumers = consumers
    /\ config = cfg
    /\ pc = "find"
    /\ pending = 0..(Len(g.recipes) - 1)
    /\ stack = <<>>
    /\ visited_in_path = {}
    /\ cycles = <<>>
    /\ analyses = <<>>

InitWith(recipes_data, cfg) ==
    LET g == BuildGraph(recipes_data)
    IN InitState(g, g.item_to_consumers, cfg)

Init ==
    \/ \E recipes_data \in GraphStores, p \in LengthPairs :
          InitWith(recipes_data, Config(p[1], p[2], "range", TRUE, "self_sustaining"))
    \/ \E recipes_data \in GraphStores, p \in UncheckedLengthPairs :
          /\ Len(recipes_data) < MaxRecipes
          /\ InitWith(recipes_data, Config(p[1], p[2], "range", TRUE, "self_sustaining"))
    \/ \E recipes_data \in QuantityStores :
          InitWith(recipes_data,
                   Config(DefaultMinCycleLength, DefaultMaxCycleLength,
                          "range", TRUE, "self_sustaining"))
    \/ \E recipes_data \in DurationStores, cfg \in ReportConfigs :
          InitWith(recipes_data, cfg)
    \/ \E recipes_data \in NoQuantityStores :
          InitWith(recipes_data,
                   Config(DefaultMinCycleLength, DefaultMaxCycleLength,
                          "range", TRUE, "self_sustaining"))
    \/ \E min_length \in 1..MaxLen, max_length \in (1..MaxLen) \cup {DefaultMaxCycleLength} :
          InitWith(ScenarioA,
                   Config(min_length, max_length, "range", TRUE, "self_sustaining"))

Next ==
    \/ StartRoot
    \/ DfsNext
    \/ FindDone
    \/ AnalyzeNext
    \/ Filter
    \/ Sort

Spec == Init /\ [][Next]_vars

\* the same program with the roots taken in any order; InitAnyOrder below lets the
\* consumers of each item be listed in any order
NextAnyOrder ==
    \/ StartRootAny
    \/ DfsNext
    \/ FindDone
    \/ AnalyzeNext
    \/ Filter
    \/ Sort

\* the lists s can be reordered to
Perms(s) ==
    {[i \in DOMAIN s |-> s[f[i]]] :
        f \in {g \in [DOMAIN s -> DOMAIN s] : \A i, j \in DOMAIN s : i # j => g[i] # g[j]}}

\* the consumers indexes that list the consumers of each item in some order
Reordered(consumers) ==
    {c \in [DOMAIN consumers -> UNION {Perms(consumers[k]) : k \in DOMAIN consumers}] :
        \A k \in DOMAIN consumers : c[k] \in Perms(consumers[k])}

InitAnyOrder ==
    \/ \E recipes_data \in GraphStores, p \in LengthPairs :
          LET g == BuildGraph(recipes_data)
          IN \E consumers \in Reordered(g.item_to_consumers) :
                InitState(g, consumers,
                          Config(p[1], p[2], "range", TRUE, "self_sustaining"))
    \/ \E recipes_data \in DurationStores, cfg \in ReportConfigs :
          LET g == BuildGraph(recipes_data)
          IN \E consumers \in Reordered(g.item_to_consumers) :
                InitState(g, consumers, cfg)

SpecAnyOrder == InitAnyOrder /\ [][NextAnyOrder]_vars

-----------------------------------------------------------------------------
(* find_all_cycles and main() as functions of the store, in the order of the *)
(* code: roots ascending, consumers in the order _build_graph lists them     *)

RECURSIVE RefDfs(_, _, _, _)
RECURSIVE RefLoop(_, _, _, _, _)
\* dfs(recipe_id, path) from st = [cycles, visited]: the two after the call
RefDfs(consumers, recipe_id, path, st) ==
    IF IsClosure(recipe_id, path)
    THEN [st EXCEPT !.cycles = Record(@, recipe_id, path)]
    ELSE IF Pruned(recipe_id, path, st.visited) THEN st
    ELSE LET after == RefLoop(consumers,
                              Get(consumers, RecipeById(recipe_id).output.name, <<>>),
                              1, Append(path, recipe_id),
                              [st EXCEPT !.visited = @ \cup {recipe_id}])
         IN [after EXCEPT !.visited = Leave(@, recipe_id)]

RefLoop(consumers, nexts, i, path, st) ==
    IF i > Len(nexts) THEN st
    ELSE RefLoop(consumers, nexts, i + 1, path, RefDfs(consumers, nexts[i], path, st))

RECURSIVE RefRoots(_, _, _)
RefRoots(consumers, recipe_id, cs) ==
    IF recipe_id >= Len(recipes) THEN cs
    ELSE RefRoots(consumers, recipe_id + 1,
                  RefDfs(consumers, recipe_id, <<>>, [cycles |-> cs, visited |-> {}]).cycles)

\* find_all_cycles(max_length, min_length)
FindAllCycles == RefRoots(BuildGraph(recipes).item_to_consumers, 0, <<>>)

\* main() from the cycles cs on: the report, <<>> when main() returns early
ReportOf(cs) ==
    LET all == [i \in DOMAIN cs |-> CycleAnalysis(cs[i])]
        kept == IF ~config.include_non_sustaining
                THEN SelectSeq(all, LAMBDA a : a.is_self_sustaining)
                ELSE all
    IN Sorted(kept, config.sort_by)
-----------------------------------------------------------------------------
(* The recipe graph, from the recipes themselves *)

RecipeIds == 0..(Len(recipes) - 1)

\* recipe r lists item name as a consumable input
Consumes(r, name) ==
    \E j \in DOMAIN RecipeById(r).inputs :
        /\ RecipeById(r).inputs[j].name = name
        /\ IsConsumable(RecipeById(r).inputs[j])

\* the successor of position i in a cycle of length k
Succ(i, k) == (i % k) + 1

NoRepeat(c) == \A i, j \in DOMAIN c : i # j => c[i] # c[j]

\* c is a closed walk along edges r1 -> r2, r2 in the consumers of r1's output
ClosedByIndex(c) ==
    \A i \in DOMAIN c :
        c[Succ(i, Len(c))] \in Range(ConsumersOf(RecipeById(c[i]).output.name))

\* c is a closed walk: each recipe consumes the output of the one before it
ClosedByInputs(c) ==
    \A i \in DOMAIN c : Consumes(c[Succ(i, Len(c))], RecipeById(c[i]).output.name)

\* the simple cycles of the recipe graph, each in the rotation that starts at
\* its minimum id
SimpleCycles ==
    {c \in UNION {[1..k -> RecipeIds] : k \in 1..Len(recipes)} :
        /\ NoRepeat(c)
        /\ c[1] = SeqMin(c)
        /\ ClosedByIndex(c)}

Rotation(c, k) == [i \in DOMAIN c |-> c[((i + k - 1) % Len(c)) + 1]]

IsRotationOf(c, d) == Len(c) = Len(d) /\ \E k \in 0..(Len(c) - 1) : Rotation(c, k) = d

SearchOver == pc # "find"

\* find_all_cycles has just returned
SearchReturned == pc \in {"analyze", "exit"} /\ analyses = <<>>

\* C1: completeness.  When the search returns and 1 <= min_length <= max_length,
\* every simple cycle of the recipe graph whose length lies in
\* [min_length, max_length] is in the result, in its normalized rotation.
CompleteCycles ==
    (/\ SearchReturned
     /\ 1 <= config.min_cycle_length
     /\ config.min_cycle_length <= config.max_cycle_length)
    => \A c \in SimpleCycles :
          (config.min_cycle_length <= Len(c) /\ Len(c) <= config.max_cycle_length)
          => c \in Range(cycles)

\* a search that returned a self-loop and a cycle of three recipes, the latter of
\* length exactly max_length
CompleteCyclesWitness ==
    /\ SearchReturned
    /\ config.min_cycle_length = 1
    /\ config.max_cycle_length = 3
    /\ \E c \in Range(cycles) : Len(c) = 1
    /\ \E c \in Range(cycles) : Len(c) = 3

\* C2: soundness.  At every point of the search every cycle in the result
\* repeats no recipe id, and each of its recipes lists the output of the recipe
\* before it (cyclically) as a consumable input.
SoundCycles ==
    \A n \in DOMAIN cycles :
        /\ Len(cycles[n]) >= 1
        /\ NoRepeat(cycles[n])
        /\ ClosedByInputs(cycles[n])

\* the search from root 0, the only one started, has stored the cycle (1, 2):
\* it reached recipe 2 before recipe 1 (0 feeds 2 and not 1), closed the path
\* at recipe 2, which is not the root, and rotated the cycle [2, 1]
SoundCyclesWitness ==
    /\ pc = "find"
    /\ pending = {1, 2}
    /\ <<1, 2>> \in Range(cycles)
    /\ 2 \in Range(NextRecipes(0))
    /\ 1 \notin Range(NextRecipes(0))

\* C3: length bounds.  At every point of the search every cycle in the result
\* has a length between min_length and max_length.
LengthBounds ==
    \A n \in DOMAIN cycles :
        /\ config.min_cycle_length <= Len(cycles[n])
        /\ Len(cycles[n]) <= config.max_cycle_length

\* min_length = max_length = 2 on a store that has a self-loop (too short) and a
\* cycle of three recipes (too long), and the search returned a cycle
LengthBoundsWitness ==
    /\ SearchOver
    /\ config.min_cycle_length = 2
    /\ config.max_cycle_length = 2
    /\ cycles # <<>>
    /\ \E c \in SimpleCycles : Len(c) = 1
    /\ \E c \in SimpleCycles : Len(c) = 3

\* C4: canonical deduplication.  At every point of the search every cycle in the
\* result starts with its minimum id and no two entries of the result are
\* rotations of one another.
CanonicalCycles ==
    /\ \A n \in DOMAIN cycles : cycles[n][1] = SeqMin(cycles[n])
    /\ \A n, m \in DOMAIN cycles : n < m => ~IsRotationOf(cycles[n], cycles[m])

\* the search from root 2, the last one, is under way on a store whose cycle
\* (0, 1, 2) the searches from roots 0 and 1 have both closed, and the result
\* holds it once
CanonicalCyclesWitness ==
    /\ pc = "find"
    /\ pending = {}
    /\ stack # <<>>
    /\ config.max_cycle_length >= 3
    /\ <<0, 1, 2>> \in Range(cycles)
    /\ Len(cycles) >= 2

ReferenceReport == ReportOf(FindAllCycles)

-----------------------------------------------------------------------------
(* Scenario A *)

IsScenarioA ==
    /\ Len(recipes) = Len(ScenarioA)
    /\ \A i \in DOMAIN recipes :
          /\ recipes[i].inputs = ScenarioA[i].inputs
          /\ recipes[i].output = ScenarioA[i].output

MainOver == pc \in {"done", "exit"}

\* C7 as claimed: on the store of Scenario A the run reports the cycle [R1, R2]
\* (ids 0, 1) with net balance {Wire: +4}, self-sustaining.
ScenarioAClaimed ==
    (IsScenarioA /\ MainOver) =>
        \E n \in DOMAIN analyses :
            /\ analyses[n].cycle = <<0, 1>>
            /\ analyses[n].net_balance = [Wire |-> 4]
            /\ analyses[n].is_self_sustaining

\* C7 as amended: on the store of Scenario A the search never holds a cycle of
\* length 2; it returns the self-loop [R2] (id 1) alone when min_length <= 1
\* and nothing otherwise, and the analysis of [R2] has consumed {Wire: 1},
\* produced {Wire: 3}, net balance {Wire: +2} and is self-sustaining.
ScenarioAFound ==
    IsScenarioA =>
        /\ \A n \in DOMAIN cycles : Len(cycles[n]) # 2
        /\ SearchOver =>
              cycles = IF config.min_cycle_length <= 1 THEN << <<1>> >> ELSE <<>>
        /\ pc = "done" =>
              /\ Len(analyses) = 1
              /\ analyses[1].cycle = <<1>>
              /\ analyses[1].inputs_consumed = [Wire |-> 1]
              /\ analyses[1].outputs_produced = [Wire |-> 3]
              /\ analyses[1].net_balance = [Wire |-> 2]
              /\ analyses[1].is_self_sustaining

\* the run on the store of Scenario A has produced its report
ScenarioAFoundWitness == IsScenarioA /\ pc = "done" /\ analyses # <<>>

-----------------------------------------------------------------------------
(* The analysis of a cycle *)

RECURSIVE SumOver(_, _)
\* the sum of f over the set S of its arguments
SumOver(f, S) ==
    IF S = {} THEN 0
    ELSE LET x == CHOOSE y \in S : TRUE IN f[x] + SumOver(f, S \ {x})

SumOf(d) == SumOver(d, DOMAIN d)

\* what the recipes of the cycle produce of an item
Produced(cycle, item) ==
    SumOf([i \in DOMAIN cycle |->
              IF RecipeById(cycle[i]).output.name = item
              THEN RecipeById(cycle[i]).output.quantity ELSE 0])

\* what recipe r consumes of an item: its consumable inputs of that name
ConsumedBy(r, item) ==
    SumOf([j \in DOMAIN RecipeById(r).inputs |->
              IF RecipeById(r).inputs[j].name = item /\ IsConsumable(RecipeById(r).inputs[j])
              THEN RecipeById(r).inputs[j].quantity ELSE 0])

Consumed(cycle, item) == SumOf([i \in DOMAIN cycle |-> ConsumedBy(cycle[i], item)])

\* C8: self-sustaining classification.  Every analysis is self-sustaining exactly
\* when no item of its net balance is negative and at least one is positive.
SelfSustainingRule ==
    \A n \in DOMAIN analyses :
        LET net_balance == analyses[n].net_balance
        IN analyses[n].is_self_sustaining
              <=> /\ \A item \in DOMAIN net_balance : net_balance[item] >= 0
                  /\ \E item \in DOMAIN net_balance : net_balance[item] > 0

\* the analysis of a self-loop whose net balance is empty, not self-sustaining,
\* beside no other
SelfSustainingRuleWitness ==
    \E n \in DOMAIN analyses :
        /\ Len(analyses[n].cycle) = 1
        /\ DOMAIN analyses[n].outputs_produced # {}
        /\ DOMAIN analyses[n].net_balance = {}
        /\ ~analyses[n].is_self_sustaining

\* C9: net balance.  In every analysis, net_balance holds an item exactly when
\* what the cycle produces of it differs from what the cycle consumes of it
\* through consumable inputs, with the difference as its value; it holds no
\* item outside the two maps; and its values sum to the sum of
\* outputs_produced minus the sum of inputs_consumed.
NetBalanceRule ==
    \A n \in DOMAIN analyses :
        LET a == analyses[n]
        IN /\ DOMAIN a.net_balance \subseteq
                 DOMAIN a.inputs_consumed \cup DOMAIN a.outputs_produced
           /\ DOMAIN a.inputs_consumed \cup DOMAIN a.outputs_produced \subseteq Items
           /\ \A item \in Items :
                 LET net == Produced(a.cycle, item) - Consumed(a.cycle, item)
                 IN /\ item \in DOMAIN a.net_balance <=> net # 0
                    /\ item \in DOMAIN a.net_balance => a.net_balance[item] = net
                    /\ Get(a.inputs_consumed, item, 0) = Consumed(a.cycle, item)
                    /\ Get(a.outputs_produced, item, 0) = Produced(a.cycle, item)
           /\ SumOf(a.net_balance) = SumOf(a.outputs_produced) - SumOf(a.inputs_consumed)

\* the analysis of a cycle with a tool input of positive quantity and an item
\* produced and consumed in equal amounts, so absent from the net balance
NetBalanceRuleWitness ==
    \E n \in DOMAIN analyses :
        LET a == analyses[n]
        IN /\ \E i \in DOMAIN a.cycle : \E j \in DOMAIN RecipeById(a.cycle[i]).inputs :
                 /\ ~IsConsumable(RecipeById(a.cycle[i]).inputs[j])
                 /\ RecipeById(a.cycle[i]).inputs[j].quantity > 0
           /\ \E item \in DOMAIN a.inputs_consumed \cap DOMAIN a.outputs_produced :
                 item \notin DOMAIN a.net_balance

\* C10: range duration.  With duration_mode = range the total of every analysis
\* has the sum of its recipes' minimums as min and the sum of their maximums as
\* max, a plain duration counting as both, and it is a single number exactly
\* when every recipe of the cycle has a plain duration.
RangeDuration ==
    config.duration_mode = "range" =>
        \A n \in DOMAIN analyses :
            LET a == analyses[n]
                durations == [i \in DOMAIN a.cycle |-> RecipeById(a.cycle[i]).duration]
            IN /\ a.total_duration.min = SumOf([i \in DOMAIN durations |-> durations[i].min])
               /\ a.total_duration.max = SumOf([i \in DOMAIN durations |-> durations[i].max])
               /\ a.total_duration.half = 0
               /\ ~a.total_duration.isRange
                     <=> \A i \in DOMAIN durations : ~durations[i].isRange

\* the analysis of a cycle of a recipe of duration {min: 10, max: 20} and one of
\* duration 30, with total {min: 40, max: 50}
RangeDurationWitness ==
    /\ config.duration_mode = "range"
    /\ \E n \in DOMAIN analyses :
          /\ Len(analyses[n].cycle) = 2
          /\ {RecipeById(r).duration : r \in Range(analyses[n].cycle)}
                = {Ranged(10, 20), Scalar(30)}
          /\ analyses[n].total_duration = Total(TRUE, 40, 50, 0)

-----------------------------------------------------------------------------
(* Configuration *)

\* the bounds of the search are not 1 <= min_length <= max_length
InvalidLengths ==
    \/ config.min_cycle_length > config.max_cycle_length
    \/ config.min_cycle_length <= 0
    \/ config.max_cycle_length <= 0

\* C11: configuration rejection.  With min_length > max_length, or min_length
\* or max_length non-positive, no DFS is started (every root is still pending,
\* no call is active) and no cycle collection is returned.
RejectsInvalidLengths ==
    InvalidLengths =>
        /\ pending = RecipeIds
        /\ stack = <<>>
        /\ ~SearchOver

-----------------------------------------------------------------------------
(* Faults of the analysis *)

\* main() has ended: with a report, by an early return or by an exception
MainEnded == pc \in {"done", "exit", "aborted"}

\* C12: per-cycle fault isolation.  When the analysis of one cycle faults (here
\* on a missing quantity) the run is not aborted: it ends with a report that
\* holds the analysis of every discovered cycle whose analysis does not fault.
FaultIsolation ==
    (MainEnded /\ config.include_non_sustaining) =>
        \A c \in Range(cycles) :
            ~AnalysisRaises(c) =>
                /\ pc = "done"
                /\ \E n \in DOMAIN analyses : analyses[n].cycle = c

-----------------------------------------------------------------------------
(* The indexes of the store *)

\* how many times x occurs in the list s
Occurrences(s, x) == Cardinality({i \in DOMAIN s : s[i] = x})

\* C13: index invariant.  Recipe ids are 0..n-1 in input order; every recipe id
\* occurs exactly once in the producers index, in the bucket of its own output
\* name; and it occurs in the consumers bucket of an item exactly once if the
\* recipe has at least one consumable input of that name (also when the item is
\* listed several times) and not at all otherwise.
IndexInvariant ==
    /\ \A i \in DOMAIN recipes : recipes[i].id = i - 1
    /\ DOMAIN item_to_producers \cup DOMAIN item_to_consumers \subseteq Items
    /\ \A r \in RecipeIds, name \in Items :
          /\ Occurrences(Get(item_to_producers, name, <<>>), r)
                = IF RecipeById(r).output.name = name THEN 1 ELSE 0
          /\ Occurrences(Get(item_to_consumers, name, <<>>), r)
                = IF Consumes(r, name) THEN 1 ELSE 0

-----------------------------------------------------------------------------
(* The order of the report *)

\* main() has assembled its sequence of analyses: sorted, or found empty after
\* the filter
ReportAssembled == pc = "done" \/ (pc = "exit" /\ cycles # <<>>)

\* no item is consumed more than produced by the cycle, and one is produced more
SustainsByNet(c) ==
    /\ \A item \in Items : Produced(c, item) >= Consumed(c, item)
    /\ \E item \in Items : Produced(c, item) > Consumed(c, item)

\* C14: report ordering with sort key self_sustaining.  In the assembled
\* sequence every self-sustaining analysis precedes every other one, within each
\* group the cycle lengths are non-increasing, analyses of equal
\* (self-sustaining, length) keep the order of the list of cycles, and the
\* sequence holds one analysis for each cycle, or for each self-sustaining cycle
\* when the filter is on.
SelfSustainingOrder ==
    (ReportAssembled /\ config.sort_by = "self_sustaining") =>
        LET kept == IF config.include_non_sustaining THEN Range(cycles)
                    ELSE {c \in Range(cycles) : SustainsByNet(c)}
        IN /\ {analyses[n].cycle : n \in DOMAIN analyses} = kept
           /\ Len(analyses) = Cardinality(kept)
           /\ \A n \in DOMAIN analyses :
                 analyses[n].is_self_sustaining <=> SustainsByNet(analyses[n].cycle)
           /\ \A n, m \in DOMAIN analyses :
                 n < m =>
                    LET a == analyses[n]
                        b == analyses[m]
                    IN /\ b.is_self_sustaining => a.is_self_sustaining
                       /\ (a.is_self_sustaining <=> b.is_self_sustaining)
                             => Len(a.cycle) >= Len(b.cycle)
                       /\ ((a.is_self_sustaining <=> b.is_self_sustaining)
                              /\ Len(a.cycle) = Len(b.cycle))
                             => Index(cycles, a.cycle) < Index(cycles, b.cycle)

\* the report of a store whose cycles were discovered as (0), (0, 1), (1): the
\* two self-sustaining ones come first, the longer before the shorter, then the
\* one that is not
SelfSustainingOrderWitness ==
    /\ pc = "done"
    /\ config.sort_by = "self_sustaining"
    /\ cycles = << <<0>>, <<0, 1>>, <<1>> >>
    /\ Len(analyses) = 3
    /\ analyses[1].cycle = <<0, 1>> /\ analyses[1].is_self_sustaining
    /\ analyses[2].cycle = <<0>> /\ analyses[2].is_self_sustaining
    /\ analyses[3].cycle = <<1>> /\ ~analyses[3].is_self_sustaining

-----------------------------------------------------------------------------
(* The traversal *)

\* the path of the innermost active call, empty between two roots
CurrentPath == IF stack = <<>> THEN <<>> ELSE Top.path

\* what holds of the path, the active calls and the visited set at every step
TraversalBounded ==
    pc = "find" =>
        /\ NoRepeat(CurrentPath)
        /\ stack # <<>> => Len(CurrentPath) <= config.max_cycle_length
        /\ visited_in_path = Range(CurrentPath)
        /\ Len(stack) = Len(CurrentPath)
        /\ \A k \in DOMAIN stack :
              /\ stack[k].path = SubSeq(CurrentPath, 1, k)
              /\ stack[k].recipe_id = CurrentPath[k]

\* the next call of the loop finds its recipe on the path: a closure
ClosureNext ==
    /\ pc = "find"
    /\ stack # <<>>
    /\ NextRecipes(Top.recipe_id)[SetMin(Top.todo)] \in Range(Top.path)

\* a step from a closure pushes no call: every call active after it was active
\* before it, with the same path
NoExtensionAfterClosure ==
    ClosureNext =>
        /\ Len(stack') <= Len(stack)
        /\ \A k \in DOMAIN stack' : stack'[k].path = stack[k].path

\* the work left to the search, most significant first: the number of roots not
\* yet started, then for each depth the number of consumers the call active at
\* that depth has still to try
WorkLeft ==
    <<Cardinality(pending)>>
        \o [k \in 1..Len(recipes) |->
               IF k <= Len(stack) THEN Cardinality(stack[k].todo) ELSE 0]

\* a step of the search either ends it or leaves less work, in the
\* lexicographic order of tuples of naturals of one length (a well-founded one)
WorkDecreases ==
    (pc = "find" /\ pc' = "find") =>
        /\ Len(WorkLeft') = Len(WorkLeft)
        /\ \A k \in DOMAIN WorkLeft' : WorkLeft'[k] >= 0
        /\ TupleLess(WorkLeft', WorkLeft, 1)

\* the search is never stuck
SearchCanStep == pc = "find" => ENABLED Next

\* C15: bounded traversal and termination.  find_all_cycles terminates (it can
\* always take a step, and every step that does not end it leaves less work in
\* a well-founded order, so no run of the search is infinite); at every step the
\* current path repeats no recipe id and holds at most max_length ids, the
\* visited set is the set of ids on the current path (empty once a root's
\* search has ended), and a step that detects a closure extends no branch.
TraversalTerminates ==
    /\ []TraversalBounded
    /\ []SearchCanStep
    /\ [][WorkDecreases]_vars
    /\ [][NoExtensionAfterClosure]_vars

\* the search stands on a path of max_length = 2 recipes of a store of three
\* after a closure was recorded, with a consumer off the path still to call:
\* the length test prunes it
TraversalTerminatesWitness ==
    /\ pc = "find"
    /\ Len(recipes) = 3
    /\ config.max_cycle_length = 2
    /\ cycles # <<>>
    /\ stack # <<>>
    /\ Len(Top.path) = 2
    /\ visited_in_path = Range(Top.path)
    /\ \E i \in Top.todo : NextRecipes(Top.recipe_id)[i] \notin Range(Top.path)

-----------------------------------------------------------------------------
(* The store *)

\* a step leaves the recipe list, the recipe records and the two indexes as they
\* were
StoreUnchanged ==
    /\ recipes' = recipes
    /\ item_to_producers' = item_to_producers
    /\ item_to_consumers' = item_to_consumers

\* C16: the store is read-only after construction.  No step of find_all_cycles
\* and no construction of a CycleAnalysis changes the recipe list, the recipe
\* records, the producers index or the consumers index; the lookup of the
\* consumers of an output name that no recipe consumes adds no bucket.
StoreReadOnly == [][StoreUnchanged]_vars

\* a root whose output no recipe consumes has been searched, its consumers looked
\* up, and the consumers index has no bucket for that name
StoreReadOnlyWitness ==
    /\ pc = "find"
    /\ config.max_cycle_length >= 1
    /\ \E r \in RecipeIds \ pending :
          RecipeById(r).output.name \notin DOMAIN item_to_consumers

=============================================================================
